---- MODULE Spec2Model ----
(***************************************************************************)
(* Constraint-level model of three circuit fragments of zkevm-circuits:    *)
(*   - ChainIdGadget            (evm_circuit/execution/chainid.rs)         *)
(*   - ErrorInvalidJumpGadget   (evm_circuit/execution/error_invalid_jump) *)
(*   - PoseidonCircuit          (poseidon_circuit.rs)                      *)
(* A gadget is modelled by the cells it queries, the constraints its       *)
(* configure() declares over them (as predicates on a row), and the        *)
(* assignment its assign_exec_step() makes.  The tables a lookup reads     *)
(* (block, bytecode, rw) are state too.  A prover may assign cells any     *)
(* value; the constraints decide which assignments are accepted.           *)
(***************************************************************************)
EXTENDS Integers, Sequences, FiniteSets

VARIABLES
    phase,            \* position of the row: "trace", "assigned", "stepped", "done"
    block_chain_id,   \* block table: value of the ChainId row (one field element)
    rw_value,         \* rw table: word of the stack operation at rw_indices[0]
    chain_id,         \* ChainIdGadget.chain_id : WordCell (lo, hi)
    curr,             \* cb.curr.state : step state of the current step
    next,             \* cb.next.state : step state of the next step
    next_execution_state, \* cb.next execution state
    tampered,         \* number of next-step cells a prover has overwritten
    bytes,            \* bytecode of the current call (block.bytecodes[call.code_hash])
    rw_dest,          \* rw table: stack value popped at rw_indices[0] (the destination)
    cells,            \* ErrorInvalidJumpGadget cells
    rw_is_success,    \* rw table: value of the call-context IsSuccess read
    restore_rw_offset,\* rw_offset handed to restore_context.assign
    pblock,           \* witness::Block as PoseidonCircuit reads it
    rows,             \* result of min_num_rows_block
    circuit           \* PoseidonCircuit(table, max_hashes) as built by new_from_block

vars == << phase, block_chain_id, rw_value, chain_id, curr, next,
           next_execution_state, tampered, bytes, rw_dest, cells, rw_is_success,
           restore_rw_offset, pblock, rows, circuit >>

chainIdVars == << block_chain_id, rw_value, chain_id >>
stepVars    == << curr, next, next_execution_state, tampered >>
jumpVars    == << bytes, rw_dest, cells >>
restoreVars == << rw_is_success, restore_rw_offset >>
poseidonVars == << pblock, rows, circuit >>

(***************************************************************************)
(* Bounds                                                                  *)
(***************************************************************************)
MaxLimb == 2        \* largest value of a 128-bit limb in the model
MaxStepVal == 4     \* largest value a prover writes into a next-step cell
MaxTamper == 1      \* next-step cells a prover overwrites in one row
MaxCodeLen == 3     \* longest bytecode
MaxEvmRows == 4     \* largest circuits_params.max_evm_rows
MaxHashBlockSize == 2 \* largest F::hash_block_size()
MaxHashTraces == 2  \* most entries hash_traces returns
MaxBytecodes == 2   \* most bytecodes in block.bytecodes

(***************************************************************************)
(* Words: a 256-bit word is the pair of its 128-bit limbs                  *)
(***************************************************************************)
Limb == 0..MaxLimb
Word == [lo : Limb, hi : Limb]
ZeroWord == [lo |-> 0, hi |-> 0]

\* A value that fits one limb, as a word (U256::from(u64) and the like).
WordOfLimb(v) == [lo |-> v, hi |-> 0]

(***************************************************************************)
(* Step state and step-state transitions (constraint builder)              *)
(***************************************************************************)
StepFields == { "rw_counter", "call_id", "is_root", "is_create", "code_hash",
                "program_counter", "stack_pointer", "gas_left",
                "memory_word_size", "reversible_write_counter", "log_id" }

BoolFields == { "is_root", "is_create" }

Same == [kind |-> "Same", v |-> 0]
Any == [kind |-> "Any", v |-> 0]
Delta(d) == [kind |-> "Delta", v |-> d]
To(x) == [kind |-> "To", v |-> x]

\* Transition::{Same, Delta, To, Any} as a constraint between a cell of the
\* current step and the same cell of the next step.
TransitionHolds(t, c, n) ==
    CASE t.kind = "Same"  -> n = c
      [] t.kind = "Delta" -> n = c + t.v
      [] t.kind = "To"    -> n = t.v
      [] t.kind = "Any"   -> TRUE

\* cb.require_step_state_transition: one constraint per step-state field.
require_step_state_transition(tr, c, n) ==
    \A f \in StepFields : TransitionHolds(tr[f], c[f], n[f])

\* StepStateTransition::default(): every field Same.
StepStateTransition_default == [f \in StepFields |-> Same]

\* StepStateTransition::any(): no field constrained.
StepStateTransition_any == [f \in StepFields |-> Any]

(***************************************************************************)
(* ChainIdGadget                                                           *)
(***************************************************************************)
\* OpcodeId::CHAINID.constant_gas_cost() (GasCost::QUICK)
CHAINID_constant_gas_cost == 2

\* cb.stack_push(chain_id.to_word()): the rw table row of the push holds the
\* word made of both limbs of the chain_id cell.
ChainId_stack_push == rw_value = [lo |-> chain_id.lo, hi |-> chain_id.hi]

\* cb.block_lookup(ChainId, None, chain_id.lo()): the block table row of tag
\* ChainId holds the value of the low limb.
ChainId_block_lookup == block_chain_id = chain_id.lo

ChainId_StepStateTransition_PcByTwo ==
    [f \in StepFields |->
        CASE f = "rw_counter"      -> Delta(1)
          [] f = "program_counter" -> Delta(2)
          [] f = "stack_pointer"   -> Delta(-1)
          [] f = "gas_left"        -> Delta(-CHAINID_constant_gas_cost)
          [] OTHER                 -> StepStateTransition_default[f]]

\* The StepStateTransition built in configure.
ChainId_StepStateTransition ==
    [f \in StepFields |->
        CASE f = "rw_counter"      -> Delta(1)
          [] f = "program_counter" -> Delta(1)
          [] f = "stack_pointer"   -> Delta(-1)
          [] f = "gas_left"        -> Delta(-CHAINID_constant_gas_cost)
          [] OTHER                 -> StepStateTransition_default[f]]

\* SameContextGadget::construct(cb, opcode, step_state_transition)
ChainId_same_context ==
    require_step_state_transition(ChainId_StepStateTransition, curr, next)

\* Every constraint ChainIdGadget::configure declares.
ChainIdGadget_configure ==
    /\ ChainId_stack_push
    /\ ChainId_block_lookup
    /\ ChainId_same_context

\* The step a CHAINID execution produces in the trace: the next step state
\* the witness generator hands to the circuit.
ChainId_trace_next(c) ==
    [c EXCEPT !["rw_counter"] = @ + 1,
              !["program_counter"] = @ + 1,
              !["stack_pointer"] = @ - 1,
              !["gas_left"] = @ - CHAINID_constant_gas_cost]

\* Step states a CHAINID step starts from.
ChainId_CurrSteps ==
    { [f \in StepFields |->
          CASE f = "rw_counter"      -> 1
            [] f = "program_counter" -> pc
            [] f = "stack_pointer"   -> sp
            [] f = "gas_left"        -> gas
            [] f = "is_root"         -> root
            [] f = "call_id"         -> 1
            [] f = "code_hash"       -> 1
            [] OTHER                 -> 0] :
        pc \in 0..1, sp \in 1..2,
        gas \in CHAINID_constant_gas_cost..(CHAINID_constant_gas_cost + 1),
        root \in 0..1 }

IdleStep == [f \in StepFields |-> 0]
IdleCells == [destination |-> 0, code_length |-> 0, value |-> 0, is_code |-> 0,
              out_of_range |-> 0, is_jump_dest |-> 0]
IdleBlock == [max_evm_rows |-> 0, hash_block_size |-> 1, zktrie |-> FALSE,
              poseidon_codehash |-> FALSE, hash_traces |-> 0, bytecodes |-> << >>]
IdleRows == << 0, 0 >>
IdleCircuit == [entries |-> 0, max_hashes |-> 0]

JumpIdle == bytes = << >> /\ rw_dest = 0 /\ cells = IdleCells
RestoreIdle == rw_is_success = 0 /\ restore_rw_offset = 0
PoseidonIdle == pblock = IdleBlock /\ rows = IdleRows /\ circuit = IdleCircuit

\* ChainIdGadget::assign_exec_step: chain_id <- block.rws[step.rw_indices[0]].stack_value()
ChainId_assign_exec_step ==
    /\ phase = "trace"
    /\ chain_id' = [lo |-> rw_value.lo, hi |-> rw_value.hi]
    /\ phase' = "assigned"
    /\ UNCHANGED << block_chain_id, rw_value, stepVars, jumpVars, restoreVars,
                    poseidonVars >>

\* A prover assigns the chain_id cells (query_word_unchecked: no range check
\* restricts them) any pair of limbs.
ChainId_ProverAssign ==
    /\ phase = "trace"
    /\ \E w \in Word : chain_id' = w
    /\ phase' = "assigned"
    /\ UNCHANGED << block_chain_id, rw_value, stepVars, jumpVars, restoreVars,
                    poseidonVars >>

InitChainId ==
    /\ phase = "trace"
    /\ block_chain_id \in Limb
    /\ rw_value \in Word
    /\ chain_id = ZeroWord
    /\ curr \in { c \in ChainId_CurrSteps : c["program_counter"] = 0
                     /\ c["stack_pointer"] = 1 /\ c["is_root"] = 1
                     /\ c["gas_left"] = CHAINID_constant_gas_cost }
    /\ next = ChainId_trace_next(curr)
    /\ next_execution_state = "STOP"
    /\ tampered = 0
    /\ JumpIdle /\ RestoreIdle /\ PoseidonIdle

NextChainId == ChainId_assign_exec_step \/ ChainId_ProverAssign

SpecChainId == InitChainId /\ [][NextChainId]_vars

\* The next step as the trace gives it.
ChainId_ExecStep ==
    /\ phase = "assigned"
    /\ next' = ChainId_trace_next(curr)
    /\ phase' = "stepped"
    /\ UNCHANGED << chainIdVars, curr, next_execution_state, tampered, jumpVars,
                    restoreVars, poseidonVars >>

StepValues(f) == IF f \in BoolFields THEN 0..1 ELSE 0..MaxStepVal

\* A prover overwrites one cell of the next step state.
TamperNext ==
    /\ phase = "stepped"
    /\ tampered < MaxTamper
    /\ \E f \in StepFields : \E v \in StepValues(f) :
          /\ v # next[f]
          /\ next' = [next EXCEPT ![f] = v]
    /\ tampered' = tampered + 1
    /\ UNCHANGED << phase, chainIdVars, curr, next_execution_state, jumpVars,
                    restoreVars, poseidonVars >>

InitChainIdStep ==
    /\ phase = "assigned"
    /\ block_chain_id = 1
    /\ rw_value = WordOfLimb(1)
    /\ chain_id = WordOfLimb(1)
    /\ curr \in ChainId_CurrSteps
    /\ next = curr
    /\ next_execution_state = "STOP"
    /\ tampered = 0
    /\ JumpIdle /\ RestoreIdle /\ PoseidonIdle

NextChainIdStep == ChainId_ExecStep \/ TamperNext

SpecChainIdStep == InitChainIdStep /\ [][NextChainIdStep]_vars

(***************************************************************************)
(* Claims about ChainIdGadget                                              *)
(***************************************************************************)
\* C1: for every CHAINID row that satisfies the gadget's constraints, the
\* full word pushed onto the stack (both limbs) equals the ChainId value of
\* the block table.
C1_PushedWordIsChainId ==
    (phase = "assigned" /\ ChainIdGadget_configure)
        => rw_value = WordOfLimb(block_chain_id)

\* C2: a CHAINID step that satisfies the constraints moves rw_counter +1,
\* program_counter +1, stack_pointer -1, gas_left minus the constant gas
\* cost, and leaves every other step-state field as it was.
C2_ChainIdStepDeltas ==
    (phase = "stepped" /\ ChainIdGadget_configure) =>
        /\ next["rw_counter"] = curr["rw_counter"] + 1
        /\ next["program_counter"] = curr["program_counter"] + 1
        /\ next["stack_pointer"] = curr["stack_pointer"] - 1
        /\ next["gas_left"] = curr["gas_left"] - CHAINID_constant_gas_cost
        /\ \A f \in { "call_id", "is_root", "is_create", "code_hash",
                      "memory_word_size", "reversible_write_counter", "log_id" } :
              next[f] = curr[f]

\* C2 witness: a CHAINID step whose next step state satisfies the constraints.
C2_Witness ==
    /\ phase = "stepped"
    /\ ChainIdGadget_configure
    /\ curr["gas_left"] > CHAINID_constant_gas_cost
    /\ curr["is_root"] = 1

(***************************************************************************)
(* Bytecode and the bytecode table                                         *)
(***************************************************************************)
OP_STOP == 0        \* OpcodeId::STOP
OP_JUMP == 86       \* OpcodeId::JUMP (0x56)
OP_JUMPDEST == 91   \* OpcodeId::JUMPDEST (0x5b)
OP_PUSH1 == 96      \* OpcodeId::PUSH1 (0x60)

ByteSet == { OP_STOP, OP_JUMP, OP_JUMPDEST, OP_PUSH1 }

RECURSIVE SeqsUpTo(_, _)
SeqsUpTo(S, n) ==
    IF n = 0 THEN { << >> }
    ELSE LET shorter == SeqsUpTo(S, n - 1)
         IN shorter \cup { Append(q, x) : q \in { r \in shorter : Len(r) = n - 1 }, x \in S }

Destinations == 0..(MaxCodeLen + 1)

\* Number of data bytes an opcode pushes (PUSH1 pushes one).
PushDataLen(op) == IF op = OP_PUSH1 THEN 1 ELSE 0

\* Whether the byte at 0-based index i is code (not the data of a PUSH):
\* the marking the bytecode table carries in its is_code column.
RECURSIVE IsCodeFrom(_, _, _)
IsCodeFrom(bs, pos, i) ==
    IF pos > i THEN FALSE
    ELSE IF pos = i THEN TRUE
    ELSE IsCodeFrom(bs, pos + 1 + PushDataLen(bs[pos + 1]), i)

IsCodeAt(bs, i) == IsCodeFrom(bs, 0, i)

Flag(b) == IF b THEN 1 ELSE 0

\* Bytecode::get(idx) -> [byte, is_code]
Bytecode_get(bs, i) == << bs[i + 1], Flag(IsCodeAt(bs, i)) >>

\* The rows (index, is_code, value) of the bytecode table for one bytecode.
BytecodeTable(bs) ==
    { [index |-> i, is_code |-> Bytecode_get(bs, i)[2], value |-> Bytecode_get(bs, i)[1]] :
        i \in 0..(Len(bs) - 1) }

\* The bytecodes a JUMP can execute in: some byte of it is a JUMP that is code.
Bytecodes ==
    { bs \in SeqsUpTo(ByteSet, MaxCodeLen) :
        \E i \in 0..(Len(bs) - 1) : bs[i + 1] = OP_JUMP /\ IsCodeAt(bs, i) }

\* A valid jump destination: inside the bytecode, a JUMPDEST that is code.
ValidJumpDest(bs, d) ==
    /\ d < Len(bs)
    /\ bs[d + 1] = OP_JUMPDEST
    /\ IsCodeAt(bs, d)

(***************************************************************************)
(* Math gadgets                                                            *)
(***************************************************************************)
\* LtGadget::construct(cb, lhs, rhs).expr(): 1 when lhs < rhs, else 0.
LtGadget(lhs, rhs) == Flag(lhs < rhs)

\* IsEqualGadget::construct(cb, lhs, rhs).expr(): 1 when lhs = rhs, else 0.
IsEqualGadget(lhs, rhs) == Flag(lhs = rhs)

(***************************************************************************)
(* ErrorInvalidJumpGadget: constraints over the gadget's own cells         *)
(***************************************************************************)
\* is_jump_dest = IsEqualGadget(value, JUMPDEST)
Jump_is_jump_dest == cells.is_jump_dest = IsEqualGadget(cells.value, OP_JUMPDEST)

\* cb.stack_pop(destination)
Jump_stack_pop == rw_dest = cells.destination

\* code_length = cb.bytecode_length(code_hash)
Jump_bytecode_length == cells.code_length = Len(bytes)

\* out_of_range = LtGadget(code_length, dest_value)
Jump_out_of_range ==
    cells.out_of_range = LtGadget(cells.code_length, cells.destination)

\* cb.bytecode_lookup(code_hash, dest_value, is_code, value)
Jump_bytecode_lookup ==
    [index |-> cells.destination, is_code |-> cells.is_code, value |-> cells.value]
        \in BytecodeTable(bytes)

\* cb.require_boolean("is_code is bool type", is_code)
Jump_is_code_bool == cells.is_code \in {0, 1}

Jump_not_jump_dest_dropped == TRUE

\* cb.require_zero("is_code is false or not JUMPDEST", is_code * is_jump_dest)
Jump_not_jump_dest == cells.is_code * cells.is_jump_dest = 0

\* cb.condition(1 - out_of_range, ...): the three constraints are enforced
\* when the condition is not zero.
Jump_in_range_condition ==
    (1 - cells.out_of_range # 0) =>
        /\ Jump_bytecode_lookup
        /\ Jump_is_code_bool
        /\ Jump_not_jump_dest

\* The constraints configure declares over destination, code_length, value,
\* is_code, is_jump_dest and out_of_range.
Jump_cell_constraints ==
    /\ Jump_is_jump_dest
    /\ Jump_stack_pop
    /\ Jump_bytecode_length
    /\ Jump_out_of_range
    /\ Jump_in_range_condition

\* ErrorInvalidJumpGadget::assign_exec_step
Jump_assign_exec_step ==
    /\ phase = "trace"
    /\ LET destination == rw_dest
           code_length == Len(bytes)
           code_pair == IF destination < code_length
                        THEN Bytecode_get(bytes, destination)
                        ELSE << 0, 0 >>
       IN cells' = [destination |-> destination,
                    code_length |-> code_length,
                    value |-> code_pair[1],
                    is_code |-> code_pair[2],
                    is_jump_dest |-> IsEqualGadget(code_pair[1], OP_JUMPDEST),
                    out_of_range |-> LtGadget(code_length, destination)]
    /\ restore_rw_offset' = 2
    /\ phase' = "assigned"
    /\ UNCHANGED << chainIdVars, stepVars, bytes, rw_dest, rw_is_success,
                    poseidonVars >>

\* A prover assigns the gadget's cells any values.
Jump_ProverAssign ==
    /\ phase = "trace"
    /\ cells' \in [destination : Destinations, code_length : 0..MaxCodeLen,
                   value : ByteSet, is_code : 0..2, is_jump_dest : 0..1,
                   out_of_range : 0..1]
    /\ phase' = "forged"
    /\ UNCHANGED << chainIdVars, stepVars, bytes, rw_dest, restoreVars,
                    poseidonVars >>

ChainIdIdle == block_chain_id = 0 /\ rw_value = ZeroWord /\ chain_id = ZeroWord

InitJump ==
    /\ phase = "trace"
    /\ bytes \in Bytecodes
    /\ rw_dest \in Destinations
    /\ cells = IdleCells
    /\ curr = IdleStep /\ next = IdleStep
    /\ next_execution_state = "EndTx"
    /\ tampered = 0
    /\ ChainIdIdle /\ RestoreIdle /\ PoseidonIdle

NextJump == Jump_assign_exec_step \/ Jump_ProverAssign

SpecJump == InitJump /\ [][NextJump]_vars

(***************************************************************************)
(* Claims about the cells of ErrorInvalidJumpGadget                        *)
(***************************************************************************)
\* C3: for every bytecode and every destination that is not a valid jump
\* destination, the cells assign_exec_step fills satisfy every constraint
\* configure declares over them, the bytecode lookup included when enabled.
C3_WitnessSatisfiesConstraints ==
    (phase = "assigned" /\ ~ValidJumpDest(bytes, rw_dest)) => Jump_cell_constraints

\* C4: when the popped destination is a valid jump destination, no
\* assignment of the cells satisfies the constraints.
C4_ValidJumpDestRejected ==
    (phase \in {"assigned", "forged"} /\ ValidJumpDest(bytes, rw_dest))
        => ~Jump_cell_constraints

\* C4 witness: a prover's assignment for a valid jump destination that meets
\* every constraint but the last one (cells bound to the table row).
C4_Witness ==
    /\ phase = "forged"
    /\ ValidJumpDest(bytes, rw_dest)
    /\ Jump_is_jump_dest /\ Jump_stack_pop /\ Jump_bytecode_length
    /\ Jump_out_of_range /\ Jump_bytecode_lookup /\ Jump_is_code_bool
    /\ cells.is_code = 1 /\ cells.value = OP_JUMPDEST

(***************************************************************************)
(* ErrorInvalidJumpGadget: call-context read and continuation              *)
(***************************************************************************)
ExecutionStates == { "EndTx", "STOP", "ErrorInvalidJump" }

\* Lookups of the constraint builder that go to the rw table: each one
\* advances cb.rw_counter_offset by one.
IsRwLookup(op) == op \in { "stack_pop", "stack_push", "call_context_lookup" }

RECURSIVE RwLookupCount(_)
RwLookupCount(ops) ==
    IF ops = << >> THEN 0
    ELSE Flag(IsRwLookup(Head(ops))) + RwLookupCount(Tail(ops))

\* The lookups configure makes before it handles the continuation, in order.
Jump_configure_lookups ==
    << "stack_pop", "bytecode_length", "bytecode_lookup", "call_context_lookup" >>

\* cb.rw_counter_offset() once those lookups are made: where the reads of
\* the restore-context sub-circuit start.
Jump_rw_counter_offset == RwLookupCount(Jump_configure_lookups)

\* cb.call_context_lookup(false, None, IsSuccess, 0)
Jump_call_context_lookup == rw_is_success = 0

\* cb.next.execution_state_selector([EndTx])
Jump_is_to_end_tx == Flag(next_execution_state = "EndTx")

Jump_end_tx_dropped == TRUE

\* cb.require_equal("Go to EndTx only when is_root", is_root, is_to_end_tx)
Jump_end_tx == curr["is_root"] = Jump_is_to_end_tx

Jump_root_StepStateTransition_OneLookup ==
    [f \in StepFields |->
        CASE f = "call_id"    -> Same
          [] f = "rw_counter" -> Delta(1 + curr["reversible_write_counter"])
          [] OTHER            -> StepStateTransition_any[f]]

\* The StepStateTransition of a root call.
Jump_root_StepStateTransition ==
    [f \in StepFields |->
        CASE f = "call_id"    -> Same
          [] f = "rw_counter" -> Delta(2 + curr["reversible_write_counter"])
          [] OTHER            -> StepStateTransition_any[f]]

\* cb.condition(is_root, |cb| cb.require_step_state_transition(..))
Jump_root_condition ==
    (curr["is_root"] # 0) =>
        require_step_state_transition(Jump_root_StepStateTransition, curr, next)

Jump_restore_context_Success ==
    [condition |-> 1 - curr["is_root"], is_success |-> 1, rw_lookups |-> 2,
     return_data_offset |-> 0, return_data_length |-> 0,
     memory_expansion_cost |-> 0]

\* cb.condition(1 - is_root, |cb| RestoreContextGadget::construct(cb, 0, 2, 0, 0, 0))
Jump_restore_context ==
    [condition |-> 1 - curr["is_root"], is_success |-> 0, rw_lookups |-> 2,
     return_data_offset |-> 0, return_data_length |-> 0,
     memory_expansion_cost |-> 0]

\* The constraints configure declares on the call context and the next step.
Jump_step_constraints ==
    /\ Jump_call_context_lookup
    /\ Jump_end_tx
    /\ Jump_root_condition

\* Every constraint ErrorInvalidJumpGadget::configure declares.
ErrorInvalidJumpGadget_configure ==
    /\ Jump_cell_constraints
    /\ Jump_step_constraints

\* Step states an ErrorInvalidJump step starts from.
Jump_CurrSteps ==
    { [f \in StepFields |->
          CASE f = "rw_counter"               -> 1
            [] f = "program_counter"          -> 0
            [] f = "stack_pointer"            -> 1
            [] f = "gas_left"                 -> 1
            [] f = "is_root"                  -> root
            [] f = "call_id"                  -> 2 - root
            [] f = "code_hash"                -> 1
            [] f = "reversible_write_counter" -> rwc
            [] OTHER                          -> 0] :
        root \in 0..1, rwc \in 0..1 }

\* The next step as the trace gives it: a root call ends the transaction
\* after its reversible writes are reverted; an internal call returns to its
\* caller (call 1, here the root).
Jump_ExecStep ==
    /\ phase = "assigned"
    /\ IF curr["is_root"] = 1
       THEN /\ next_execution_state' = "EndTx"
            /\ next' = [curr EXCEPT !["rw_counter"] =
                           @ + 2 + curr["reversible_write_counter"]]
       ELSE /\ next_execution_state' = "STOP"
            /\ next' = [curr EXCEPT !["call_id"] = 1, !["is_root"] = 1]
    /\ phase' = "stepped"
    /\ UNCHANGED << chainIdVars, curr, tampered, jumpVars, restoreVars,
                    poseidonVars >>

\* A prover picks another execution state for the next step.
TamperExecutionState ==
    /\ phase = "stepped"
    /\ \E e \in ExecutionStates :
          /\ e # next_execution_state
          /\ next_execution_state' = e
    /\ UNCHANGED << phase, chainIdVars, curr, next, tampered, jumpVars,
                    restoreVars, poseidonVars >>

InitJumpStep ==
    /\ phase = "trace"
    /\ bytes = << OP_JUMP >>
    /\ rw_dest = 0
    /\ cells = IdleCells
    /\ curr \in Jump_CurrSteps
    /\ next = IdleStep
    /\ next_execution_state = "ErrorInvalidJump"
    /\ tampered = 0
    /\ rw_is_success \in 0..1
    /\ restore_rw_offset = 0
    /\ ChainIdIdle /\ PoseidonIdle

NextJumpStep ==
    \/ Jump_assign_exec_step
    \/ Jump_ExecStep
    \/ TamperNext
    \/ TamperExecutionState

SpecJumpStep == InitJumpStep /\ [][NextJumpStep]_vars

(***************************************************************************)
(* Claims about the continuation of ErrorInvalidJumpGadget                 *)
(***************************************************************************)
\* C5: in every step that satisfies the constraints, the next execution
\* state is EndTx exactly when the current call is the root call.
C5_EndTxOnlyWhenRoot ==
    (phase = "stepped" /\ ErrorInvalidJumpGadget_configure)
        => ((next_execution_state = "EndTx") <=> (curr["is_root"] = 1))

\* C5 witness: an accepted step of a root call, going to EndTx.
C5_Witness ==
    /\ phase = "stepped"
    /\ ErrorInvalidJumpGadget_configure
    /\ curr["is_root"] = 1
    /\ next_execution_state = "EndTx"

\* C6: in a root call the constraints on the next step state are exactly
\* call_id unchanged and rw_counter advanced by 2 plus the reversible write
\* counter, 2 being the number of rw lookups the gadget makes; no other
\* step-state field is constrained.
C6_RootTransition ==
    (/\ phase = "stepped"
     /\ curr["is_root"] = 1
     /\ Jump_cell_constraints /\ Jump_call_context_lookup /\ Jump_end_tx)
        => /\ Jump_rw_counter_offset = 2
           /\ Jump_root_condition <=>
                 (/\ next["call_id"] = curr["call_id"]
                  /\ next["rw_counter"] = curr["rw_counter"]
                        + Jump_rw_counter_offset
                        + curr["reversible_write_counter"])

\* C6 witness: an accepted root-call step whose next step differs from the
\* current one in a field other than call_id and rw_counter.
C6_Witness ==
    /\ phase = "stepped"
    /\ curr["is_root"] = 1
    /\ curr["reversible_write_counter"] = 1
    /\ ErrorInvalidJumpGadget_configure
    /\ next["program_counter"] # curr["program_counter"]

HASHBLOCK_BYTES_IN_FIELD == 31
PoseidonTable_INPUT_WIDTH == 2

HASH_BLOCK_STEP_SIZE == HASHBLOCK_BYTES_IN_FIELD * PoseidonTable_INPUT_WIDTH

CeilDiv(a, b) == (a + b - 1) \div b

\* unroll_to_hash_input_default(bytes).len(): the bytes packed into field
\* elements, the field elements grouped into hash inputs.
unroll_to_hash_input_len(n) ==
    CeilDiv(CeilDiv(n, HASHBLOCK_BYTES_IN_FIELD), PoseidonTable_INPUT_WIDTH)

Max(a, b) == IF a >= b THEN a ELSE b

\* Lengths of the bytecodes of a block: empty, one input, a full input, two.
CodeLens == { 0, 1, HASH_BLOCK_STEP_SIZE, HASH_BLOCK_STEP_SIZE + 1 }

Blocks ==
    [max_evm_rows : 0..MaxEvmRows,
     hash_block_size : 1..MaxHashBlockSize,
     zktrie : BOOLEAN,
     poseidon_codehash : BOOLEAN,
     hash_traces : 0..MaxHashTraces,
     bytecodes : SeqsUpTo(CodeLens, MaxBytecodes)]

\* for bytecode in block.bytecodes.values() { cnt += unroll(..).len() }
RECURSIVE min_num_rows_codehash(_)
min_num_rows_codehash(bcs) ==
    IF bcs = << >> THEN 0
    ELSE unroll_to_hash_input_len(Head(bcs)) + min_num_rows_codehash(Tail(bcs))

\* PoseidonCircuit::min_num_rows_block
min_num_rows_block(b) ==
    LET acc0 == 0
        acc1 == IF b.zktrie THEN acc0 + b.hash_traces ELSE acc0
        acc2 == IF b.poseidon_codehash
                THEN acc1 + min_num_rows_codehash(b.bytecodes)
                ELSE acc1
        acc  == acc2 * b.hash_block_size
    IN << acc, Max(b.max_evm_rows, acc) >>

\* The inputs stream_inputs adds to the table: empty bytecodes are skipped.
RECURSIVE new_from_block_codehash(_)
new_from_block_codehash(bcs) ==
    IF bcs = << >> THEN 0
    ELSE (IF Head(bcs) # 0 THEN unroll_to_hash_input_len(Head(bcs)) ELSE 0)
            + new_from_block_codehash(Tail(bcs))

\* PoseidonCircuit::new_from_block: the number of hash entries loaded into
\* the table and the capacity max_hashes.
new_from_block(b) ==
    LET max_hashes == b.max_evm_rows \div b.hash_block_size
        t0 == 0
        t1 == IF b.zktrie THEN t0 + b.hash_traces ELSE t0
        t2 == IF b.poseidon_codehash
              THEN t1 + new_from_block_codehash(b.bytecodes)
              ELSE t1
    IN [entries |-> t2, max_hashes |-> max_hashes]

Poseidon_min_num_rows_block ==
    /\ phase \in { "block", "built" }
    /\ rows' = min_num_rows_block(pblock)
    /\ phase' = IF phase = "block" THEN "measured" ELSE "done"
    /\ UNCHANGED << chainIdVars, stepVars, jumpVars, restoreVars, pblock, circuit >>

Poseidon_new_from_block ==
    /\ phase \in { "block", "measured" }
    /\ circuit' = new_from_block(pblock)
    /\ phase' = IF phase = "block" THEN "built" ELSE "done"
    /\ UNCHANGED << chainIdVars, stepVars, jumpVars, restoreVars, pblock, rows >>

InitPoseidon ==
    /\ phase = "block"
    /\ pblock \in Blocks
    /\ rows = IdleRows
    /\ circuit = IdleCircuit
    /\ curr = IdleStep /\ next = IdleStep
    /\ next_execution_state = "EndTx"
    /\ tampered = 0
    /\ ChainIdIdle /\ JumpIdle /\ RestoreIdle

NextPoseidon == Poseidon_min_num_rows_block \/ Poseidon_new_from_block

SpecPoseidon == InitPoseidon /\ [][NextPoseidon]_vars

(***************************************************************************)
(* Claims about PoseidonCircuit                                            *)
(***************************************************************************)
\* Hash inputs of a block, each kind counted when its feature is enabled.
HashInputCount(b) ==
    (IF b.zktrie THEN b.hash_traces ELSE 0)
    + (IF b.poseidon_codehash THEN min_num_rows_codehash(b.bytecodes) ELSE 0)

\* The part of C8 about min_num_rows_block and the capacity formula.
C8_RowsAndCapacityFormula ==
    (phase = "done") =>
        /\ rows[1] = HashInputCount(pblock) * pblock.hash_block_size
        /\ rows[2] = Max(pblock.max_evm_rows, rows[1])
        /\ rows[2] >= rows[1]
        /\ rows[2] >= pblock.max_evm_rows
        /\ (~pblock.zktrie /\ ~pblock.poseidon_codehash) => rows[1] = 0
        /\ circuit.max_hashes = pblock.max_evm_rows \div pblock.hash_block_size

\* C8: min_num_rows_block returns (used, total) with used = hash inputs *
\* hash_block_size and total = max(max_evm_rows, used); the circuit built by
\* new_from_block has capacity max_evm_rows / hash_block_size, which is
\* enough to hold every hash entry loaded into its table.
C8_RowsAndCapacity ==
    (phase = "done") =>
        /\ C8_RowsAndCapacityFormula
        /\ circuit.max_hashes >= circuit.entries

====
